---- MODULE Spec2Model ----
(***************************************************************************)
(* Patch-queue management of git-buildpackage: the branch naming of       *)
(* gbp/scripts/common/pq.py, the import / export / drop / switch engine   *)
(* of gbp/scripts/pq.py (Debian) and gbp/scripts/pq_rpm.py (RPM).         *)
(*                                                                         *)
(* Branch names and patterns are sequences of one-character strings; the  *)
(* token BR stands for the "%(branch)s" component of a pattern.           *)
(***************************************************************************)
EXTENDS Integers, Sequences, FiniteSets, TLC

\* ------------------------------------------------------------------ bounds
MaxPatLen == 3
MaxNameLen == 2

\* ------------------------------------------------------------- branch naming
BR == "%(branch)s"
NoneVal == <<"None">>

\* the characters names are made of: two letters, a regular-expression
\* metacharacter and a whitespace character
NameChars == {"m", "q", "+", " "}
PatTokens == NameChars \cup {BR}

RECURSIVE SeqsUpTo(_, _)
SeqsUpTo(S, n) ==
    IF n = 0 THEN {<<>>}
    ELSE LET shorter == SeqsUpTo(S, n - 1)
         IN  shorter \cup {Append(s, x) : s \in {t \in shorter : Len(t) = n - 1}, x \in S}

IsSpace(c) == c = " "

HasSpace(s) == \E i \in 1..Len(s) : IsSpace(s[i])

RECURSIVE BRCount(_)
BRCount(p) ==
    IF p = <<>> THEN 0
    ELSE (IF Head(p) = BR THEN 1 ELSE 0) + BRCount(Tail(p))

\* pq_format_str % dict(branch=branch)
RECURSIVE Subst(_, _)
Subst(p, b) ==
    IF p = <<>> THEN <<>>
    ELSE (IF Head(p) = BR THEN b ELSE <<Head(p)>>) \o Subst(Tail(p), b)

\* re.compile of '^' + pattern with the group put in + '$': "+" repeats the
\* atom before it, so it needs one ("nothing to repeat"), a second "+" in a
\* row is refused ("multiple repeat") and so is a second group named base.
ReCompiles(p) ==
    /\ p # <<>>
    /\ p[1] # "+"
    /\ \A i \in 1..(Len(p) - 1) : ~(p[i] = "+" /\ p[i + 1] = "+")
    /\ BRCount(p) <= 1

\* the atoms of the compiled expression: a literal character or the group
\* (?P<base>\S+), each with the "+" that follows it, if any
RECURSIVE Atoms(_)
Atoms(p) ==
    IF p = <<>> THEN <<>>
    ELSE IF Head(p) = "+" THEN Atoms(Tail(p))
    ELSE <<[tok |-> Head(p), plus |-> (Len(p) > 1 /\ p[2] = "+")]>> \o Atoms(Tail(p))

\* a mutant of is_pq_branch: no name is a patch-queue branch
is_pq_branch_never(branch, pqfmt) == FALSE

\* a mutant of AtomChar: the group is \w+, letters only
AtomCharWord(a, c) == IF a.tok = BR THEN c \in {"m", "q"} ELSE c = a.tok

\* one character against an atom: the group's \S, or the literal
AtomChar(a, c) == IF a.tok = BR THEN ~IsSpace(c) ELSE c = a.tok

AtomRepeats(a) == a.tok = BR \/ a.plus

\* does atoms[i..] match s[j..] up to the end of s
RECURSIVE ReMatchFrom(_, _, _, _)
ReMatchFrom(atoms, i, s, j) ==
    IF i > Len(atoms) THEN j = Len(s) + 1
    ELSE IF AtomRepeats(atoms[i])
         THEN \E k \in (j + 1)..(Len(s) + 1) :
                  /\ \A t \in j..(k - 1) : AtomChar(atoms[i], s[t])
                  /\ ReMatchFrom(atoms, i + 1, s, k)
         ELSE /\ j <= Len(s)
              /\ AtomChar(atoms[i], s[j])
              /\ ReMatchFrom(atoms, i + 1, s, j + 1)

pq_re_match(p, s) == ReMatchFrom(Atoms(p), 1, s, 1)

is_pq_branch(branch, pqfmt) == pq_re_match(pqfmt, branch)

pq_branch_name(branch, pqfmt) ==
    IF ~is_pq_branch(branch, pqfmt) THEN Subst(pqfmt, branch) ELSE NoneVal

\* a mutant of ReGroupFrom: the whole name is taken for the group
ReGroupWhole(atoms, i, s, j) == s

\* m.group('base') of the match the backtracking matcher finds first: every
\* repeated atom takes the longest run that still lets the rest match
RECURSIVE ReGroupFrom(_, _, _, _)
ReGroupFrom(atoms, i, s, j) ==
    IF i > Len(atoms) THEN NoneVal
    ELSE IF AtomRepeats(atoms[i])
         THEN LET ends == {k \in (j + 1)..(Len(s) + 1) :
                              /\ \A t \in j..(k - 1) : AtomChar(atoms[i], s[t])
                              /\ ReMatchFrom(atoms, i + 1, s, k)}
                  k == CHOOSE x \in ends : \A y \in ends : y <= x
              IN  IF atoms[i].tok = BR THEN SubSeq(s, j, k - 1)
                  ELSE ReGroupFrom(atoms, i + 1, s, k)
         ELSE ReGroupFrom(atoms, i + 1, s, j + 1)

packaging_branch == <<"m">>

pq_branch_base(pq_branch_, pqfmt) ==
    IF pq_re_match(pqfmt, pq_branch_)
    THEN IF BRCount(pqfmt) > 0 THEN ReGroupFrom(Atoms(pqfmt), 1, pq_branch_, 1)
         ELSE packaging_branch
    ELSE NoneVal

\* ------------------------------------------------------------ engine bounds
MaxHist == 3
MaxPatches == 2
MaxTries == 3
MaxOps == 1
MaxRuns == 2

\* ------------------------------------------------------------- engine state
VARIABLES
    frontend,    \* "deb": gbp/scripts/pq.py, "rpm": gbp/scripts/pq_rpm.py
    pqfmt,       \* options.pq_branch
    force,       \* options.force
    time_machine,\* options.time_machine
    nq,          \* number of patches in the first series, named 1..nq in series order
    failAt,      \* failAt[c] = the patch that does not apply on baseline c, 0: none
    upstream,    \* rpm: the commit find_version returns for the upstream tag, 0: none
    objects,     \* the commits: objects[c] = [par: parents, patch: made from patch]
    branches,    \* branch name -> commit
    current,     \* repo.get_branch()
    dirty,       \* the working tree holds a partly applied patch
    staging,     \* the directory made by safe_patches exists
    runtmp,      \* rpm: the run's options.tmp_dir exists
    pc,          \* position of the running action, "idle" between actions
    action,      \* the action main was called with
    orig,        \* the branch checked out when main was called
    retval,      \* what main returned
    err,         \* the exception that ended the action, "none" if none
    branch,      \* local of import: the branch worked on
    pq_branch,   \* local of import: the patch-queue branch
    commits,     \* local of import: the candidate baselines
    ci,          \* local of import: index of the baseline being tried
    pi,          \* local of import: index of the next patch
    tmpdir,      \* local of import: tmpdir is set
    attempts,    \* history: the commits create_branch was called with
    dels,        \* history: [name, cur] for each branch deleted
    ops,         \* the number of calls of main still to come
    patch_numbers, \* options.patch_numbers
    opt_commit,  \* deb: options.commit
    opt_drop,    \* deb: options.drop
    ignore_regex,\* rpm: options.patch_export_ignore_regex is set
    squash,      \* rpm: options.patch_export_squash_until, as the commit it names
                 \* (0: not set) and whether that commit's tree differs from upstream's
    subjOf,      \* subjOf[i]: the subject of patch i, as its patchname
    ignOf,       \* ignOf[i]: where the message of patch i carries the ignore mark
    fileOf,      \* fileOf[i]: the file name of patch i in the series, less ".patch"
    wt,          \* the patch files of the working tree, in the order of the series
    manual,      \* the hand-maintained files of the patch directory, outside the series
    runs         \* history: what each finished call of main did

engineVars == <<frontend, pqfmt, force, time_machine, nq, failAt, upstream,
                objects, branches, current, dirty, staging, runtmp,
                pc, action, orig, retval, err, runs,
                branch, pq_branch, commits, ci, pi, tmpdir, attempts, dels, ops,
                patch_numbers, opt_commit, opt_drop, ignore_regex, squash, subjOf, ignOf,
                fileOf, wt, manual, runs>>

VARIABLES
    n_pat,       \* naming: the pattern
    n_branch,    \* naming: the branch name given
    n_name,      \* naming: what pq_branch_name returned
    n_ispq,      \* naming: what is_pq_branch returned for n_name
    n_base,      \* naming: what pq_branch_base returned for n_name
    n_pc         \* naming: "start", "named", "classified", "based", "plain"

namingVars == <<n_pat, n_branch, n_name, n_ispq, n_base, n_pc>>

vars == <<engineVars, namingVars>>

\* names of the engine: two base branches and the patterns with and without
\* the branch component
Master == <<"m">>
Other == <<"k">>
FmtWithBranch == <<"q", BR>>
FmtInvariable == <<"q">>

\* a pattern without the branch component that holds a character the regular
\* expression made of it reads as an operator, and the branch of that name
FmtSpecial == <<"m", "+">>
Special == <<"m", "+">>

\* --------------------------------------------------------------- the backend
HasBranch(name) == name \in DOMAIN branches

WithBranch(bs, name, c) == [n \in (DOMAIN bs) \cup {name} |-> IF n = name THEN c ELSE bs[n]]

\* a mutant of WithoutBranch: nothing is deleted
WithoutBranchKept(bs, name) == bs

WithoutBranch(bs, name) == [n \in (DOMAIN bs) \ {name} |-> bs[n]]

FailAt(c) == IF c \in DOMAIN failAt THEN failAt[c] ELSE 0

\* a mutant of NextParent: the walk follows the last parent
NextParentLast(c) == objects[c].par[Len(objects[c].par)]

\* first_parent=True: the walk through history follows the first parent
NextParent(c) == objects[c].par[1]

\* repo.get_commits(num=num, first_parent=True) from commit c, most recent first
RECURSIVE get_commits(_, _)
get_commits(c, num) ==
    IF num = 0 THEN <<>>
    ELSE IF objects[c].par = <<>> THEN <<c>>
    ELSE <<c>> \o get_commits(NextParent(c), num - 1)

\* exceptions: the class and what it was raised for
NoError == [type |-> "none", msg |-> "none"]
GbpError(m) == [type |-> "GbpError", msg |-> m]
GitRepositoryError(m) == [type |-> "GitRepositoryError", msg |-> m]

\* the value main returns when the action ended with exception e
MainRetval(fe, e) ==
    IF e.type = "none" THEN 0
    ELSE IF fe = "rpm" /\ e.type = "GitRepositoryError" THEN 0
    ELSE 1

\* main's tail: the except clauses and, for rpm, the finally that removes
\* options.tmp_dir with everything below it; st is the staging directory's
\* state when the action ended
MainEndWith(a, e, st, out) ==
    /\ pc' = "idle"
    /\ err' = e
    /\ retval' = MainRetval(frontend, e)
    /\ runtmp' = FALSE
    /\ staging' = IF frontend = "rpm" THEN FALSE ELSE st
    /\ runs' = Append(runs, [action |-> a, err |-> e, out |-> out])

\* the commit message of a call of main that commits nothing
NoMsg == [kind |-> "none", subject |-> <<>>, added |-> {}, dropped |-> {}]

\* what a call of main that exported nothing leaves in runs
NoOut == [input |-> <<>>, series |-> <<>>, revs |-> <<>>, pqtip |-> 0, added |-> {},
          removed |-> {}, committed |-> FALSE, old |-> <<>>, msg |-> NoMsg]

MainEnd(a, e, st) == MainEndWith(a, e, st, NoOut)

\* main's head: the action is accepted and the current branch read
MainBegin(a) ==
    /\ pc = "idle"
    /\ ops > 0
    /\ ops' = ops - 1
    /\ action' = a
    /\ orig' = current

namingIdle == UNCHANGED <<namingVars, wt, manual>>

optionVars == <<frontend, pqfmt, force, time_machine, nq, failAt, upstream,
                patch_numbers, opt_commit, opt_drop, ignore_regex, squash, subjOf, ignOf,
                fileOf>>

\* ------------------------------------------------------------------- import
\* import_quilt_patches / import_spec_patches up to the spec file: the checks
\* on the current branch and on the patch-queue branch, with main's head
ImportResolve ==
    /\ MainBegin("import")
    /\ attempts' = <<>>
    /\ LET onpq == is_pq_branch(current, pqfmt)
           b == IF onpq THEN pq_branch_base(current, pqfmt) ELSE current
           pq == pq_branch_name(b, pqfmt)
           stop(e) == /\ MainEnd("import", e, staging)
                      /\ UNCHANGED <<branches, current, branch, pq_branch, dels>>
       IN  IF onpq /\ ~force THEN stop(GbpError("already on a patch-queue branch"))
           ELSE IF ~HasBranch(b) THEN stop(GitRepositoryError("checkout"))
           ELSE IF HasBranch(pq) /\ ~force
           THEN /\ MainEnd("import", GbpError("patch queue branch already exists"), staging)
                /\ current' = b
                /\ UNCHANGED <<branches, branch, pq_branch, dels>>
           ELSE /\ current' = b
                /\ branch' = b
                /\ pq_branch' = pq
                /\ IF HasBranch(pq)
                   THEN /\ branches' = WithoutBranch(branches, pq)
                        /\ dels' = Append(dels, [name |-> pq, cur |-> b])
                   ELSE UNCHANGED <<branches, dels>>
                /\ pc' = "imp_commits"
                /\ runtmp' = (frontend = "rpm")
                /\ retval' = 0
                /\ err' = NoError
                /\ UNCHANGED <<staging, runs>>
    /\ commits' = <<>>
    /\ ci' = 1
    /\ pi' = 1
    /\ tmpdir' = FALSE
    /\ UNCHANGED <<optionVars, objects, dirty>>
    /\ namingIdle

\* a mutant of Tries: one try too few
TriesShort == IF time_machine > 1 THEN time_machine - 1 ELSE 1

\* main: tries = options.time_machine if (options.time_machine > 0) else 1
Tries == IF time_machine > 0 THEN time_machine ELSE 1

\* main's tries and import_quilt_patches from get_commits to the series read
ImportCommits ==
    /\ pc = "imp_commits"
    /\ frontend = "deb"
    /\ LET cs == get_commits(branches[current], Tries)
       IN  /\ commits' = cs
           /\ tmpdir' = (Len(cs) > 1)
           /\ staging' = (staging \/ Len(cs) > 1)
    /\ ci' = 1
    /\ pi' = 1
    /\ pc' = "imp_loop"
    /\ UNCHANGED <<optionVars, objects, branches, current, dirty, runtmp, action, orig,
                   retval, err, runs, branch, pq_branch, attempts, dels, ops>>
    /\ namingIdle

\* import_spec_patches from the spec file to safe_patches
ImportSpec ==
    /\ pc = "imp_commits"
    /\ frontend = "rpm"
    /\ IF upstream = 0
       THEN /\ MainEnd("import", GbpError("no upstream version"), staging)
            /\ UNCHANGED <<commits, tmpdir, ci, pi>>
       ELSE /\ commits' = <<upstream>>
            /\ tmpdir' = TRUE
            /\ staging' = TRUE
            /\ ci' = 1
            /\ pi' = 1
            /\ pc' = "imp_loop"
            /\ UNCHANGED <<runtmp, retval, err, runs>>
    /\ UNCHANGED <<optionVars, objects, branches, current, dirty, action, orig,
                   branch, pq_branch, attempts, dels, ops>>
    /\ namingIdle

\* the head of the loop over the baselines: the next candidate, with
\* create_branch and set_branch, or the loop's else
ImportCreate ==
    /\ pc = "imp_loop"
    /\ IF ci > Len(commits)
       THEN /\ MainEnd("import", GbpError("couldn't apply patches"), staging)
            /\ UNCHANGED <<branches, current, pi, attempts>>
       ELSE /\ attempts' = Append(attempts, commits[ci])
            /\ \E created \in BOOLEAN :
                  IF created
                  THEN /\ branches' = WithBranch(branches, pq_branch, commits[ci])
                       /\ current' = pq_branch
                       /\ pi' = 1
                       /\ pc' = "imp_apply"
                       /\ UNCHANGED <<staging, runtmp, retval, err, runs>>
                  ELSE /\ MainEnd("import", GbpError("cannot create patch-queue branch"), staging)
                       /\ UNCHANGED <<branches, current, pi>>
    /\ UNCHANGED <<optionVars, objects, dirty, action, orig, branch, pq_branch,
                   commits, ci, tmpdir, dels, ops>>
    /\ namingIdle

\* the i-th patch of the queue, in series order
PatchAt(i) == i

\* the subject of the patch in file f: a file of the first series, or a file
\* an export made from a commit
PatchSubject(f) == IF f.from < 0 THEN subjOf[0 - f.from] ELSE objects[f.from].subj

\* the ignore command in the description of the patch in file f, if any
PatchIgnore(f) == IF f.from < 0 THEN ignOf[0 - f.from] ELSE objects[f.from].ign

\* a mutant of CommitOf: the parent is the baseline, not the head
CommitOfOnBaseline(p) ==
    [par |-> <<commits[ci]>>, patch |-> p, subj |-> PatchSubject(wt[p]),
     ign |-> PatchIgnore(wt[p]), tree |-> <<>>]

\* the commit apply_and_commit_patch makes for patch p on the current head
CommitOf(p) ==
    [par |-> <<branches[current]>>, patch |-> p, subj |-> PatchSubject(wt[p]),
     ign |-> PatchIgnore(wt[p]), tree |-> <<>>]

\* the steps of apply_and_commit_patch that can raise: apply_patch, before
\* anything is recorded, and update_ref, after commit_tree has made the commit
ApplyFailures == {"apply_patch", "update_ref"}

\* one turn of the loop over the queue: apply_and_commit_patch on the next
\* patch, or the loop's else when none is left
ImportApply ==
    /\ pc = "imp_apply"
    /\ IF pi > Len(wt)
       THEN /\ pc' = "imp_end"
            /\ UNCHANGED <<objects, branches, pi, dirty>>
       ELSE IF FailAt(commits[ci]) = PatchAt(pi)
       THEN /\ pc' = "imp_recover"
            /\ \E raised \in ApplyFailures :
                  IF raised = "update_ref"
                  THEN /\ objects' = Append(objects, CommitOf(PatchAt(pi)))
                       /\ dirty' = TRUE
                  ELSE /\ dirty' \in BOOLEAN
                       /\ UNCHANGED objects
            /\ UNCHANGED <<branches, pi>>
       ELSE /\ objects' = Append(objects, CommitOf(PatchAt(pi)))
            /\ branches' = WithBranch(branches, current, Len(objects) + 1)
            /\ pi' = pi + 1
            /\ UNCHANGED <<pc, dirty>>
    /\ UNCHANGED <<optionVars, current, staging, runtmp, action, orig, retval, err, runs,
                   branch, pq_branch, commits, ci, tmpdir, attempts, dels, ops>>
    /\ namingIdle

\* a mutant of RecoveredBranches: the patch-queue branch is kept
RecoveredBranchesKept == branches

\* repo.delete_branch(pq_branch) after a patch failed
RecoveredBranches == WithoutBranch(branches, pq_branch)

\* the except clause of the loop over the queue
ImportRecover ==
    /\ pc = "imp_recover"
    /\ dirty' = IF frontend = "deb" THEN FALSE ELSE dirty
    /\ current' = branch
    /\ branches' = RecoveredBranches
    /\ dels' = Append(dels, [name |-> pq_branch, cur |-> branch])
    /\ ci' = ci + 1
    /\ pc' = "imp_loop"
    /\ UNCHANGED <<optionVars, objects, staging, runtmp, action, orig, retval, err, runs,
                   branch, pq_branch, commits, pi, tmpdir, attempts, ops>>
    /\ namingIdle

\* after the loops: the removal of tmpdir (deb), set_branch(branch) (rpm),
\* and main's tail
ImportEnd ==
    /\ pc = "imp_end"
    /\ current' = IF frontend = "rpm" THEN branch ELSE current
    /\ MainEndWith("import", NoError, IF tmpdir THEN FALSE ELSE staging,
                   [NoOut EXCEPT !.input = wt])
    /\ UNCHANGED <<optionVars, objects, branches, dirty, action, orig,
                   branch, pq_branch, commits, ci, pi, tmpdir, attempts, dels, ops>>
    /\ namingIdle

\* ------------------------------------------------------------------- export
Suffix == <<".", "p", "a", "t", "c", "h">>

Digit(n) == <<"0", "1", "2", "3", "4", "5", "6", "7", "8", "9">>[n + 1]

\* "%04d-" % n
NumPrefix(n) ==
    <<Digit((n \div 1000) % 10), Digit((n \div 100) % 10), Digit((n \div 10) % 10),
      Digit(n % 10), "-">>

\* patch_number=None
NoNumber == -1

\* the length a file name is cut to, the suffix included
FnMax == 64

Min(a, b) == IF a < b THEN a ELSE b

Names(files) == [i \in 1..Len(files) |-> files[i].name]

ToSet(seq) == {seq[i] : i \in 1..Len(seq)}

\* every commit reachable from c
RECURSIVE Reach(_)
Reach(c) == {c} \cup UNION {Reach(objects[c].par[i]) : i \in 1..Len(objects[c].par)}

\* repo.get_commits(since, until): the commits of until that since does not
\* have, most recent first
RECURSIVE get_commits_range(_, _)
get_commits_range(since, until) ==
    IF until \in Reach(since) THEN <<>>
    ELSE IF objects[until].par = <<>> THEN <<until>>
    ELSE <<until>> \o get_commits_range(since, objects[until].par[1])

Reversed(seq) == [i \in 1..Len(seq) |-> seq[Len(seq) + 1 - i]]

\* a mutant of RevList: the commits are walked most recent first
RevListNewestFirst(since, until) == get_commits_range(since, until)

\* reversed(repo.get_commits(start, end)): oldest first
RevList(since, until) == Reversed(get_commits_range(since, until))

\* rpm: the file name of the patch of commit c, NoneVal if c is to be ignored
patch_fn_filter(c, patch_number) ==
    IF ignore_regex /\ objects[c].ign = "subject" THEN NoneVal
    ELSE IF ignore_regex /\ objects[c].ign = "body" THEN NoneVal
    ELSE LET filename == (IF patch_number # NoNumber THEN NumPrefix(patch_number) ELSE <<>>)
                             \o objects[c].subj
         IN  SubSeq(filename, 1, Min(Len(filename), FnMax - Len(Suffix))) \o Suffix

\* a mutant of NextNumber: an ignored commit takes a number too
NextNumberAlways(num, fn) == IF patch_numbers THEN num + 1 ELSE num

\* rpm: patch_num after a commit whose file name is fn
NextNumber(num, fn) == IF fn # NoneVal /\ patch_numbers THEN num + 1 ELSE num

\* no squash point is configured
NoSquash == [point |-> 0, diff |-> FALSE]

\* rpm: 'if squash_point' and 'if start_sha1 != squash_sha1'
Squashing == squash.point # 0 /\ squash.point # upstream

\* a mutant of AfterSquash: the test leaves rev_list as it was
AfterSquashWhole(revs, sq) == revs

\* rpm: what the iterator rev_list still yields after the test
\* 'squash_sha1 in rev_list', which takes from it every commit up to and
\* including the first that equals squash_sha1
RECURSIVE AfterSquash(_, _)
AfterSquash(revs, sq) ==
    IF revs = <<>> THEN <<>>
    ELSE IF Head(revs) = sq THEN Tail(revs)
    ELSE AfterSquash(Tail(revs), sq)

\* rpm: the name of the diff file of the squashed commits
DiffName == <<"s", ".", "d", "i", "f", "f">>

\* rpm: write_diff_file(repo, diff_filepath, start_sha1, squash_sha1) and the
\* append of what it returns: no file is written for an empty diff
SquashDiff == IF squash.diff THEN <<[name |-> DiffName, from |-> squash.point]>> ELSE <<>>

\* rpm: the loop of generate_patches over rev_list
RECURSIVE GenRpm(_, _, _)
GenRpm(revs, num, patches) ==
    IF revs = <<>> THEN patches
    ELSE LET fn == patch_fn_filter(Head(revs), num)
         IN  GenRpm(Tail(revs), NextNumber(num, fn),
                    IF fn # NoneVal THEN Append(patches, [name |-> fn, from |-> Head(revs)])
                    ELSE patches)

rpm_generate_patches(revs) == GenRpm(revs, IF patch_numbers THEN 1 ELSE NoNumber, <<>>)

\* rpm: generate_patches with the squash point: the diff file, then the loop
\* over what is left of rev_list
rpm_generate_squashed(revs) ==
    IF Squashing
    THEN GenRpm(AfterSquash(revs, squash.point), IF patch_numbers THEN 1 ELSE NoNumber,
                SquashDiff)
    ELSE rpm_generate_patches(revs)

\* deb: 'ignore' in cmds, the commands parse_gbp_commands finds in the message
deb_ignored(c) == objects[c].ign # "no"

\* deb: format_patch(outdir, repo, info, patches, options.patch_numbers)
format_patch(patches, c) ==
    LET base == (IF patch_numbers THEN NumPrefix(Len(patches) + 1) ELSE <<>>) \o objects[c].subj
    IN  Append(patches, [name |-> SubSeq(base, 1, Min(Len(base), FnMax)) \o Suffix, from |-> c])

\* deb: the loop of generate_patches over rev_list
RECURSIVE GenDeb(_, _)
GenDeb(revs, patches) ==
    IF revs = <<>> THEN patches
    ELSE GenDeb(Tail(revs),
                IF ~deb_ignored(Head(revs)) THEN format_patch(patches, Head(revs)) ELSE patches)

deb_generate_patches(revs) == GenDeb(revs, <<>>)

\* a mutant of compare_series: the two differences are exchanged
compare_series_swapped(old, new) ==
    [added |-> ToSet(old) \ ToSet(new), removed |-> ToSet(new) \ ToSet(old)]

compare_series(old, new) == [added |-> ToSet(new) \ ToSet(old), removed |-> ToSet(old) \ ToSet(new)]

\* Patch(os.path.join('debian', 'patches', name)): the file of that name in
\* the patch directory, the last one written under it
PatchFile(files, name) ==
    files[CHOOSE i \in 1..Len(files) :
              /\ files[i].name = name
              /\ \A j \in (i + 1)..Len(files) : files[j].name # name]

\* format_series_diff(added, removed, options): the subject of the one patch
\* added, or the message 'Rediff patches' with a line 'Added' for each patch
\* of added and a line 'Dropped' for each patch of removed
format_series_diff(added, removed, files) ==
    IF Cardinality(added) = 1 /\ removed = {}
    THEN [kind |-> "subject", subject |-> PatchSubject(PatchFile(files, CHOOSE n \in added : TRUE)),
          added |-> {}, dropped |-> {}]
    ELSE [kind |-> "rediff", subject |-> <<>>, added |-> added, dropped |-> removed]

\* a mutant of is_clean: the working tree never counts as clean
is_clean_never(tree, files) == FALSE

\* repo.is_clean(): the working tree holds what the head commit holds
is_clean(tree, files) == ~dirty /\ files = tree

\* a mutant of ShouldCommit: an empty list of patches is committed too
ShouldCommitEmpty(patches, tree) == opt_commit /\ ~is_clean(tree, patches)

\* deb: export_patches gets to commit_patches, and that to commit_staged
ShouldCommit(patches, tree) == patches # <<>> /\ opt_commit /\ ~is_clean(tree, patches)

\* the commit commit_staged makes on the base branch
ExportCommit(tip, patches) ==
    [par |-> <<tip>>, patch |-> 0, subj |-> <<"x">>, ign |-> "no", tree |-> patches]

\* the base branch export works on
ExportBase == IF is_pq_branch(current, pqfmt) THEN pq_branch_base(current, pqfmt) ELSE current

\* the head of the patch-queue branch of b, 0 if there is no such branch
PqTip(b) ==
    IF HasBranch(pq_branch_name(b, pqfmt)) THEN branches[pq_branch_name(b, pqfmt)] ELSE 0

\* what an export that raised leaves in runs
Raised(b) == [NoOut EXCEPT !.pqtip = PqTip(b)]

\* shutil.rmtree(PATCH_DIR): what is left of the files of the directory
AfterRmtree(files) == {}

\* the files of the directory left as they were when the patches are written
\* to it: those no patch is written over
NotWrittenOver(files, patches) == {f \in files : f.name \notin ToSet(Names(patches))}

\* deb: main with the action export, export_patches
ExportDeb ==
    /\ MainBegin("export")
    /\ frontend = "deb"
    /\ LET b == ExportBase
           pq == pq_branch_name(b, pqfmt)
       IN  IF ~HasBranch(b)
           THEN /\ MainEndWith("export", GitRepositoryError("checkout"), staging, Raised(b))
                /\ UNCHANGED <<objects, branches, current, wt, manual, dels>>
           ELSE IF ~HasBranch(pq)
           THEN /\ MainEndWith("export", GbpError("not a valid tree-ish"), staging, Raised(b))
                /\ current' = b
                /\ wt' = <<>>
                /\ manual' = AfterRmtree(manual)
                /\ UNCHANGED <<objects, branches, dels>>
           ELSE LET tip == branches[b]
                    revs == RevList(tip, branches[pq])
                    patches == deb_generate_patches(revs)
                    tree == objects[tip].tree
                    commit == ShouldCommit(patches, tree)
                    diff == IF commit THEN compare_series(Names(tree), Names(patches))
                            ELSE [added |-> {}, removed |-> {}]
                    committed == IF commit THEN WithBranch(branches, b, Len(objects) + 1)
                                 ELSE branches
                IN  /\ current' = b
                    /\ wt' = patches
                    /\ manual' = AfterRmtree(manual)
                    /\ objects' = IF commit THEN Append(objects, ExportCommit(tip, patches))
                                  ELSE objects
                    /\ branches' = IF opt_drop THEN WithoutBranch(committed, pq) ELSE committed
                    /\ dels' = IF opt_drop THEN Append(dels, [name |-> pq, cur |-> b]) ELSE dels
                    /\ MainEndWith("export", NoError, staging,
                                   [input |-> <<>>, series |-> Names(patches), revs |-> revs,
                                    pqtip |-> branches[pq], added |-> diff.added,
                                    removed |-> diff.removed, committed |-> commit,
                                    old |-> IF commit THEN Names(tree) ELSE <<>>,
                                    msg |-> IF commit
                                            THEN format_series_diff(diff.added, diff.removed,
                                                                    patches)
                                            ELSE NoMsg])
    /\ UNCHANGED <<optionVars, dirty, branch, pq_branch, commits, ci, pi, tmpdir, attempts>>
    /\ UNCHANGED namingVars

\* rpm: main with the action export, export_patches with update_patch_series
ExportRpm ==
    /\ MainBegin("export")
    /\ frontend = "rpm"
    /\ LET b == ExportBase
           pq == pq_branch_name(b, pqfmt)
       IN  IF ~HasBranch(b)
           THEN /\ MainEndWith("export", GitRepositoryError("checkout"), staging, Raised(b))
                /\ UNCHANGED <<current, wt, manual>>
           ELSE IF upstream = 0
           THEN /\ MainEndWith("export", GbpError("no upstream version"), staging, Raised(b))
                /\ current' = b
                /\ UNCHANGED <<wt, manual>>
           ELSE IF ~HasBranch(pq)
           THEN /\ MainEndWith("export", GbpError("not a valid tree-ish"), staging, Raised(b))
                /\ current' = b
                /\ UNCHANGED <<wt, manual>>
           ELSE IF upstream \notin Reach(branches[pq])
           THEN /\ MainEndWith("export", GbpError("start commit not an ancestor"), staging, Raised(b))
                /\ current' = b
                /\ wt' = <<>>
                /\ UNCHANGED manual
           ELSE IF Squashing /\ squash.point \notin ToSet(RevList(upstream, branches[pq]))
           THEN /\ MainEndWith("export", GbpError("squash point not found"), staging, Raised(b))
                /\ current' = b
                /\ wt' = <<>>
                /\ UNCHANGED manual
           ELSE LET revs == RevList(upstream, branches[pq])
                    patches == rpm_generate_squashed(revs)
                IN  /\ current' = b
                    /\ wt' = patches
                    /\ manual' = NotWrittenOver(manual, patches)
                    /\ MainEndWith("export", NoError, staging,
                                   [input |-> <<>>, series |-> Names(patches), revs |-> revs,
                                    pqtip |-> branches[pq], added |-> {}, removed |-> {},
                                    committed |-> FALSE, old |-> <<>>, msg |-> NoMsg])
    /\ UNCHANGED <<optionVars, objects, branches, dirty, branch, pq_branch, commits, ci, pi,
                   tmpdir, attempts, dels>>
    /\ UNCHANGED namingVars

\* ------------------------------------------------- drop, switch and apply
\* a mutant of switch_to_pq_branch: the branch checked out stays
switch_to_pq_branch_stays(created) ==
    [ok |-> TRUE, branches |-> branches, current |-> current]

\* the branches and the checked-out branch after switch_to_pq_branch, where
\* created tells whether the backend creates a branch it is asked for
switch_to_pq_branch(created) ==
    IF is_pq_branch(current, pqfmt)
    THEN [ok |-> TRUE, branches |-> branches, current |-> current]
    ELSE LET pq == pq_branch_name(current, pqfmt)
         IN  IF HasBranch(pq) THEN [ok |-> TRUE, branches |-> branches, current |-> pq]
             ELSE IF created
             THEN [ok |-> TRUE, branches |-> WithBranch(branches, pq, branches[current]),
                   current |-> pq]
             ELSE [ok |-> FALSE, branches |-> branches, current |-> current]

\* a mutant of DroppedBranches: the current branch goes too
DroppedBranchesAndCurrent(pq) == WithoutBranch(WithoutBranch(branches, pq), current)

\* drop_pq: repo.delete_branch(pq_branch)
DroppedBranches(pq) == WithoutBranch(branches, pq)

\* main with the action drop, drop_pq
DropPq ==
    /\ MainBegin("drop")
    /\ IF is_pq_branch(current, pqfmt)
       THEN /\ MainEnd("drop", GbpError("on a patch-queue branch"), staging)
            /\ UNCHANGED <<branches, dels>>
       ELSE LET pq == pq_branch_name(current, pqfmt)
            IN  /\ IF HasBranch(pq)
                   THEN /\ branches' = DroppedBranches(pq)
                        /\ dels' = Append(dels, [name |-> pq, cur |-> current])
                   ELSE UNCHANGED <<branches, dels>>
                /\ MainEnd("drop", NoError, staging)
    /\ UNCHANGED <<optionVars, objects, current, dirty, branch, pq_branch, commits, ci, pi,
                   tmpdir, attempts>>
    /\ namingIdle

\* a mutant of SwitchedBranches: the patch-queue branch is put at the head
SwitchedBranchesMoved(sw) == WithBranch(sw.branches, sw.current, branches[current])

\* the branches after switch_to_pq_branch
SwitchedBranches(sw) == sw.branches

\* main with the action switch, switch_pq
SwitchPq ==
    /\ MainBegin("switch")
    /\ IF is_pq_branch(current, pqfmt)
       THEN /\ UNCHANGED branches
            /\ IF HasBranch(pq_branch_base(current, pqfmt))
               THEN /\ current' = pq_branch_base(current, pqfmt)
                    /\ MainEnd("switch", NoError, staging)
               ELSE /\ MainEnd("switch", GitRepositoryError("checkout"), staging)
                    /\ UNCHANGED current
       ELSE \E created \in BOOLEAN :
               LET sw == switch_to_pq_branch(created)
               IN  IF sw.ok
                   THEN /\ branches' = SwitchedBranches(sw)
                        /\ current' = sw.current
                        /\ MainEnd("switch", NoError, staging)
                   ELSE /\ MainEnd("switch", GbpError("cannot create patch-queue branch"),
                                   staging)
                        /\ UNCHANGED <<branches, current>>
    /\ UNCHANGED <<optionVars, objects, dirty, branch, pq_branch, commits, ci, pi,
                   tmpdir, attempts, dels>>
    /\ namingIdle

\* a mutant of ApplyParents: the commit gets no parent
ApplyParentsNone(head) == <<>>

\* the parents commit_tree gives the commit: [repo.head]
ApplyParents(head) == <<head>>

\* the commit apply_and_commit_patch makes of the patch file given to apply
ApplyCommit(head) ==
    [par |-> ApplyParents(head), patch |-> 1, subj |-> <<"a">>, ign |-> "no", tree |-> <<>>]

\* main with the action apply, apply_single_patch
ApplySingle ==
    /\ MainBegin("apply")
    /\ \E created \in BOOLEAN, raised \in {"none"} \cup ApplyFailures :
          LET sw == switch_to_pq_branch(created)
              head == sw.branches[sw.current]
          IN  IF ~sw.ok
              THEN /\ MainEnd("apply", GbpError("cannot create patch-queue branch"), staging)
                   /\ UNCHANGED <<objects, branches, current, dirty>>
              ELSE /\ current' = sw.current
                   /\ IF raised = "none"
                      THEN /\ objects' = Append(objects, ApplyCommit(head))
                           /\ branches' = WithBranch(sw.branches, sw.current, Len(objects) + 1)
                           /\ UNCHANGED dirty
                           /\ MainEnd("apply", NoError, staging)
                      ELSE /\ branches' = sw.branches
                           /\ IF raised = "update_ref"
                              THEN /\ objects' = Append(objects, ApplyCommit(head))
                                   /\ dirty' = TRUE
                              ELSE /\ dirty' \in BOOLEAN
                                   /\ UNCHANGED objects
                           /\ MainEnd("apply", GitRepositoryError(raised), staging)
    /\ UNCHANGED <<optionVars, branch, pq_branch, commits, ci, pi, tmpdir, attempts, dels>>
    /\ namingIdle

\* ------------------------------------------------------------ usage errors
\* the argument lists main is called with: argv[0], the action and what
\* follows it
ArgLists ==
    {<<"pq">>, <<"pq", "bogus">>, <<"pq", "apply">>, <<"pq", "apply", "p", "p">>,
     <<"pq", "apply", "p">>, <<"pq", "drop">>, <<"pq", "switch">>}

\* main's check of args: the error it logs, "none" when the action is run
Usage(args) ==
    IF Len(args) < 2 THEN "No action given."
    ELSE IF args[2] \in {"export", "import", "rebase", "drop", "switch"} THEN "none"
    ELSE IF args[2] = "apply"
    THEN (IF Len(args) # 3 THEN "No patch name given." ELSE "none")
    ELSE "Unknown action"

\* a mutant of UsageStatus: main returns 0
UsageStatusOk(msg) == 0

\* the value main returns after it logged the usage error msg
UsageStatus(msg) == 1

\* main called with arguments it does not accept: it returns before it opens
\* the repository
MainUsage ==
    /\ pc = "idle"
    /\ ops > 0
    /\ ops' = ops - 1
    /\ \E args \in ArgLists :
          /\ Usage(args) # "none"
          /\ retval' = UsageStatus(Usage(args))
          /\ runs' = Append(runs, [action |-> "usage", err |-> NoError,
                                   out |-> [NoOut EXCEPT !.input = args]])
    /\ action' = "usage"
    /\ err' = NoError
    /\ UNCHANGED <<pc, optionVars, objects, branches, current, dirty, staging, runtmp, orig,
                   branch, pq_branch, commits, ci, pi, tmpdir, attempts, dels>>
    /\ namingIdle

\* ------------------------------------------------------------ initial states
\* a commit of the upstream history
Upstream(parents) == [par |-> parents, patch |-> 0, subj |-> <<"u">>, ign |-> "no", tree |-> <<>>]

\* a history of h commits on the mainline, 1 the root and h the tip; with
\* merge, the tip is a merge whose second parent is the side commit h + 1
History(h, merge) ==
    [i \in 1..(IF merge THEN h + 1 ELSE h) |->
        Upstream(IF i = h + 1 THEN <<1>>
                 ELSE IF i = 1 THEN <<>>
                 ELSE IF i = h /\ merge THEN <<h - 1, h + 1>>
                 ELSE <<i - 1>>)]

Stray == <<"q", "k">>

\* the patch files of the series as the packaging branch holds them
SeriesFiles == [i \in 1..nq |-> [name |-> fileOf[i] \o Suffix, from |-> 0 - i]]

\* the options and the series of a run that exports nothing
PlainSeries ==
    /\ patch_numbers = TRUE
    /\ opt_commit = FALSE
    /\ opt_drop = FALSE
    /\ ignore_regex = FALSE
    /\ squash = NoSquash
    /\ subjOf = [i \in 1..nq |-> <<"a">>]
    /\ ignOf = [i \in 1..nq |-> "no"]
    /\ fileOf = [i \in 1..nq |-> <<"a">>]
    /\ wt = SeriesFiles
    /\ manual = {}

NamingIdleInit ==
    /\ n_pat = <<>>
    /\ n_branch = <<>>
    /\ n_name = <<>>
    /\ n_ispq = FALSE
    /\ n_base = <<>>
    /\ n_pc = "off"

ControlInit ==
    /\ dirty = FALSE
    /\ staging = FALSE
    /\ runtmp = FALSE
    /\ pc = "idle"
    /\ action = "none"
    /\ orig = <<>>
    /\ retval = 0
    /\ err = NoError
    /\ branch = <<>>
    /\ pq_branch = <<>>
    /\ commits = <<>>
    /\ ci = 1
    /\ pi = 1
    /\ tmpdir = FALSE
    /\ attempts = <<>>
    /\ dels = <<>>
    /\ runs = <<>>

\* the commits of a history of h commits an import can try as baselines: the
\* upstream commit (rpm), the tip and its ancestors up to the number of tries
Tried(h) ==
    IF frontend = "rpm" THEN {upstream} \ {0}
    ELSE {c \in 1..h : c > h - (IF time_machine > 0 THEN time_machine ELSE 1)}

\* a repository with the branch m, possibly its patch-queue branch and
\* possibly a branch qk, all at the tip, and any of them checked out
ImportInit ==
    /\ frontend \in {"deb", "rpm"}
    /\ pqfmt \in {FmtWithBranch, FmtInvariable}
    /\ force \in BOOLEAN
    /\ time_machine \in (IF frontend = "deb" THEN 0..MaxTries ELSE {0})
    /\ nq \in 0..MaxPatches
    /\ \E h \in 1..MaxHist, merge \in BOOLEAN, pqx \in BOOLEAN, stray \in BOOLEAN :
          /\ merge => (h >= 2 /\ frontend = "deb")
          /\ objects = History(h, merge)
          /\ upstream \in (IF frontend = "rpm" THEN 0..h ELSE {0})
          /\ failAt \in [Tried(h) -> 0..nq]
          /\ branches = [n \in {Master}
                               \cup (IF pqx THEN {pq_branch_name(Master, pqfmt)} ELSE {})
                               \cup (IF stray THEN {Stray} ELSE {}) |-> h]
    /\ current \in DOMAIN branches
    /\ PlainSeries
    /\ ControlInit
    /\ ops = MaxOps
    /\ NamingIdleInit

ImportNext ==
    \/ ImportResolve
    \/ ImportCommits
    \/ ImportSpec
    \/ ImportCreate
    \/ ImportApply
    \/ ImportRecover
    \/ ImportEnd

Spec == ImportInit /\ [][ImportNext]_vars

\* the subject lines of the patches of a series
Subjects == {<<"a">>, <<"b">>}

\* the commits an import of the series makes on top of the commit base of a
\* repository of n commits
Chain(base, n) ==
    [i \in 1..nq |-> [par |-> <<IF i = 1 THEN base ELSE n + i - 1>>, patch |-> i,
                      subj |-> subjOf[i], ign |-> ignOf[i], tree |-> <<>>]]

\* a commit made on the patch-queue branch by hand, on top of the commit head
OwnCommit(head) ==
    [par |-> <<head>>, patch |-> 0, subj |-> <<"a">>, ign |-> "no", tree |-> <<>>]

\* a repository whose branch m holds a series of nq patches; the patch-queue
\* branch is missing, or sits at the tip of m, or holds the imported series,
\* with a commit made by hand on top of it for the choices of own
ExportRepoWith(own) ==
    /\ frontend \in {"deb", "rpm"}
    /\ pqfmt = FmtWithBranch
    /\ force = FALSE
    /\ nq \in 0..MaxPatches
    /\ patch_numbers \in BOOLEAN
    /\ opt_commit \in (IF frontend = "deb" THEN BOOLEAN ELSE {FALSE})
    /\ opt_drop \in (IF frontend = "deb" THEN BOOLEAN ELSE {FALSE})
    /\ ignore_regex \in (IF frontend = "rpm" THEN BOOLEAN ELSE {FALSE})
    /\ subjOf \in [1..nq -> Subjects]
    /\ \E how \in (IF frontend = "rpm" THEN {"subject", "body"} ELSE {"body"}) :
          ignOf \in [1..nq -> {"no", how}]
    /\ fileOf \in {subjOf, [i \in 1..nq |-> <<"f">>]}
    /\ upstream \in (IF frontend = "rpm" THEN {0, MaxHist - 1, MaxHist} ELSE {0})
    /\ \E queue \in {"none", "empty", "imported"}, rewind \in BOOLEAN, extra \in own :
          LET h == MaxHist
              base == IF frontend = "rpm" THEN upstream ELSE h
              mainline == [History(h, FALSE) EXCEPT ![h].tree = SeriesFiles]
              last == IF nq = 0 THEN base ELSE h + nq
          IN  /\ queue = "imported" => base # 0
              /\ extra => queue = "imported"
              /\ rewind => (frontend = "deb" /\ nq > 0 /\ queue = "none")
              /\ time_machine = IF rewind THEN MaxTries ELSE 0
              /\ failAt = [c \in Tried(h) |-> IF rewind /\ c = h THEN 1 ELSE 0]
              /\ objects = IF queue = "imported"
                           THEN mainline \o Chain(base, h)
                                         \o (IF extra THEN <<OwnCommit(last)>> ELSE <<>>)
                           ELSE mainline
              /\ branches = [n \in {Master} \cup (IF queue = "none" THEN {}
                                                  ELSE {pq_branch_name(Master, pqfmt)}) |->
                                IF n = Master \/ queue = "empty" THEN h
                                ELSE IF extra THEN h + nq + 1 ELSE last]
    /\ current \in DOMAIN branches
    /\ wt = SeriesFiles
    /\ ControlInit
    /\ NamingIdleInit

\* the repository whose patch-queue branch holds nothing but what an import
\* made
ExportRepo == ExportRepoWith({FALSE})

\* the repository of an export, with no file in the patch directory but
\* those of the series
ExportInit ==
    /\ ExportRepo
    /\ squash = NoSquash
    /\ manual = {}
    /\ ops = MaxRuns

ExportNext ==
    \/ ImportNext
    \/ ExportDeb
    \/ ExportRpm

SpecExport == ExportInit /\ [][ExportNext]_vars

\* a hand-maintained file of the patch directory under a name of its own, and
\* one under the name export gives the patch of a commit
ManualFiles ==
    {[name |-> <<"h">> \o Suffix, from |-> 0],
     [name |-> (IF patch_numbers THEN NumPrefix(1) ELSE <<>>) \o <<"a">> \o Suffix, from |-> 0]}

\* the repository of an export, with hand-maintained files in the patch
\* directory and commits made by hand on the patch-queue branch
PatchDirInit ==
    /\ ExportRepoWith(BOOLEAN)
    /\ squash = NoSquash
    /\ manual \in SUBSET {f \in ManualFiles : f.name \notin ToSet(Names(SeriesFiles))}
    /\ ops = MaxOps

PatchDirNext ==
    \/ ExportDeb
    \/ ExportRpm

SpecPatchDir == PatchDirInit /\ [][PatchDirNext]_vars

\* the repository of an rpm export with any commit, or none, configured as
\* the squash point
SquashInit ==
    /\ ExportRepoWith(BOOLEAN)
    /\ frontend = "rpm"
    /\ squash \in {q \in [point : 0..Len(objects), diff : BOOLEAN] :
                       q.diff => (q.point # 0 /\ q.point # upstream)}
    /\ manual = {}
    /\ ops = MaxOps

SquashNext == ExportRpm

SpecSquash == SquashInit /\ [][SquashNext]_vars

\* a repository with the branch m, possibly the branch m+ and possibly the
\* patch-queue branch of one of them at any commit, any of them checked out,
\* and any of the three patterns configured
DeleteInit ==
    /\ frontend \in {"deb", "rpm"}
    /\ pqfmt \in {FmtWithBranch, FmtInvariable, FmtSpecial}
    /\ force = FALSE
    /\ time_machine = 0
    /\ nq \in 0..MaxPatches
    /\ failAt = <<>>
    /\ upstream = 0
    /\ \E h \in 1..MaxHist, at \in 0..MaxHist, base \in {Master, Special} :
          LET pq == pq_branch_name(base, pqfmt)
          IN  /\ at <= h
              /\ at > 0 => pq # NoneVal
              /\ objects = History(h, FALSE)
              /\ branches = [n \in {Master, base} \cup (IF at > 0 THEN {pq} ELSE {}) |->
                                IF at > 0 /\ n = pq THEN at ELSE h]
    /\ current \in DOMAIN branches
    /\ patch_numbers = TRUE
    /\ opt_commit = FALSE
    /\ opt_drop \in (IF frontend = "deb" THEN BOOLEAN ELSE {FALSE})
    /\ ignore_regex = FALSE
    /\ squash = NoSquash
    /\ subjOf = [i \in 1..nq |-> <<"a">>]
    /\ ignOf = [i \in 1..nq |-> "no"]
    /\ fileOf = [i \in 1..nq |-> <<"a">>]
    /\ wt = SeriesFiles
    /\ manual = {}
    /\ ControlInit
    /\ ops = MaxOps
    /\ NamingIdleInit

DeleteNext ==
    \/ DropPq
    \/ ExportDeb

SpecDelete == DeleteInit /\ [][DeleteNext]_vars

\* a repository with the branch m and a series of nq patches, possibly the
\* patch-queue branch of m at any commit of m and possibly a branch qk, and
\* any of them checked out
ManageInit ==
    /\ frontend \in {"deb", "rpm"}
    /\ pqfmt \in {FmtWithBranch, FmtInvariable}
    /\ force = FALSE
    /\ time_machine = 0
    /\ nq \in 0..MaxPatches
    /\ failAt = <<>>
    /\ upstream = 0
    /\ \E h \in 1..MaxHist, at \in 0..MaxHist, stray \in BOOLEAN :
          /\ at <= h
          /\ objects = History(h, FALSE)
          /\ branches = [n \in {Master}
                               \cup (IF at > 0 THEN {pq_branch_name(Master, pqfmt)} ELSE {})
                               \cup (IF stray THEN {Stray} ELSE {}) |->
                            IF n = pq_branch_name(Master, pqfmt) THEN at ELSE h]
    /\ current \in DOMAIN branches
    /\ PlainSeries
    /\ ControlInit
    /\ ops = MaxRuns
    /\ NamingIdleInit

ManageNext ==
    \/ DropPq
    \/ SwitchPq
    \/ ApplySingle
    \/ MainUsage

SpecManage == ManageInit /\ [][ManageNext]_vars

\* ------------------------------------------------------- claims about import
ImportEnded == pc = "idle" /\ action = "import"

\* import got past its checks on the branches and chose its baselines
ImportTried == ImportEnded /\ commits # <<>>

\* the k-th first-parent ancestor of commit c, c itself for k = 0
RECURSIVE Ancestor(_, _)
Ancestor(c, k) ==
    IF k = 0 \/ objects[c].par = <<>> THEN c ELSE Ancestor(objects[c].par[1], k - 1)

\* the branch import works on: the branch it was called on, or the base of
\* that branch when it is a patch-queue branch
WorkBranch == IF is_pq_branch(orig, pqfmt) THEN pq_branch_base(orig, pqfmt) ELSE orig

EveryBaselineFails == \A i \in 1..Len(commits) : FailAt(commits[i]) # 0

\* C1 as stated: when the series applies on no candidate baseline, import
\* ends with an error, on the branch that was checked out when it was called
\* and without a patch-queue branch.
C1_BackOnInvokedBranch ==
    (ImportTried /\ EveryBaselineFails) =>
        /\ err.type # "none"
        /\ retval # 0
        /\ current = orig
        /\ ~HasBranch(pq_branch)

\* C1 as amended: when the series applies on no candidate baseline, import
\* ends with an error, on the branch it works on (the branch it was called
\* on or, called with force on a patch-queue branch, that branch's base) and
\* without a patch-queue branch.
C1_BackOnWorkBranch ==
    (ImportTried /\ EveryBaselineFails) =>
        /\ err.type # "none"
        /\ retval # 0
        /\ current = WorkBranch
        /\ current = branch
        /\ ~HasBranch(pq_branch)

C1_Witness ==
    /\ ImportTried
    /\ EveryBaselineFails
    /\ Len(attempts) >= 2
    /\ err = GbpError("couldn't apply patches")
    /\ orig # branch

\* C2: when import has ended, on whatever path, the staging directory made
\* by safe_patches does not exist.
C2_StagingRemoved == ImportEnded => ~staging

\* the first candidate baseline on which every patch applies, 0 if none
FirstGood(cs) ==
    IF \E i \in 1..Len(cs) : FailAt(cs[i]) = 0
    THEN CHOOSE i \in 1..Len(cs) : FailAt(cs[i]) = 0 /\ \A j \in 1..(i - 1) : FailAt(cs[j]) # 0
    ELSE 0

\* the candidates of a Debian import with N tries: the branch tip and its
\* first-parent ancestors, N at most
RECURSIVE Candidates(_, _)
Candidates(c, n) ==
    IF n = 0 THEN <<>>
    ELSE IF objects[c].par = <<>> THEN <<c>>
    ELSE <<c>> \o Candidates(objects[c].par[1], n - 1)

TriesGiven == IF time_machine > 0 THEN time_machine ELSE 1

\* the commit a patch-queue chain starts from
RECURSIVE Baseline(_)
Baseline(c) == IF objects[c].patch = 0 THEN c ELSE Baseline(objects[c].par[1])

BackendRefused == err.msg = "cannot create patch-queue branch"

\* C3: when one of the N candidate baselines lets every patch apply (and the
\* backend creates the branches asked for), import ends with the patch-queue
\* branch on the most recent such baseline, and no other branch holds patches.
C3_MostRecentGoodBaseline ==
    (ImportTried /\ frontend = "deb" /\ ~BackendRefused) =>
        LET cs == Candidates(branches[branch], TriesGiven)
            k == FirstGood(cs)
        IN  k # 0 =>
              /\ err = NoError
              /\ retval = 0
              /\ HasBranch(pq_branch)
              /\ Baseline(branches[pq_branch]) = cs[k]
              /\ attempts = SubSeq(cs, 1, k)
              /\ \A n \in DOMAIN branches : n # pq_branch => objects[branches[n]].patch = 0

C3_Witness ==
    /\ ImportTried
    /\ frontend = "deb"
    /\ Len(attempts) = 3
    /\ FailAt(attempts[1]) = 2
    /\ FailAt(attempts[2]) = 1
    /\ FailAt(attempts[3]) = 0
    /\ HasBranch(pq_branch)
    /\ Baseline(branches[pq_branch]) = attempts[3]

\* C4: at every moment of a Debian import with N tries, the patch-queue
\* branch has been created at most N times, first at the branch tip and then
\* each time at the first parent of the commit before, never twice at the
\* same commit.
C4_AttemptsAreRecentHistory ==
    (action = "import" /\ frontend = "deb" /\ branch # <<>> /\ attempts # <<>>) =>
        /\ Len(attempts) <= TriesGiven
        /\ attempts[1] = branches[branch]
        /\ \A i \in 1..(Len(attempts) - 1) :
              /\ objects[attempts[i]].par # <<>>
              /\ attempts[i + 1] = objects[attempts[i]].par[1]
        /\ \A i, j \in 1..Len(attempts) : i # j => attempts[i] # attempts[j]

C4_Witness ==
    /\ action = "import"
    /\ frontend = "deb"
    /\ Len(attempts) = 2
    /\ Len(objects[attempts[1]].par) = 2
    /\ time_machine = 2
    /\ pc = "idle"

\* C5: after a successful import of a series of n patches, the patch-queue
\* branch is the chain baseline -> C1 -> ... -> Cn: Ci is made from patch i
\* and its only parent is the commit before it in the chain.
C5_ChainInSeriesOrder ==
    (ImportEnded /\ err = NoError) =>
        LET tip == branches[pq_branch]
        IN  /\ HasBranch(pq_branch)
            /\ \A i \in 1..nq :
                  /\ objects[Ancestor(tip, nq - i)].patch = i
                  /\ Len(objects[Ancestor(tip, nq - i)].par) = 1
            /\ Ancestor(tip, nq) = attempts[Len(attempts)]
            /\ objects[Ancestor(tip, nq)].patch = 0

C5_Witness ==
    /\ ImportEnded
    /\ err = NoError
    /\ nq = 2
    /\ Len(attempts) = 2
    /\ objects[branches[pq_branch]].patch = 2

\* a step that begins an import
ImportStart ==
    /\ pc = "idle"
    /\ action' = "import"
    /\ ops' = ops - 1

\* the patch-queue branch an import called on the current branch is about
ImportTarget == IF pq_re_match(pqfmt, current) THEN current ELSE Subst(pqfmt, current)

\* a step that is a call of apply_and_commit_patch from the loop of import
ApplyCall == pc = "imp_apply" /\ pi <= Len(wt)

\* C14: a call of apply_and_commit_patch either records the new commit and
\* moves the head of the checked-out branch to it, or records nothing: no
\* call leaves a new commit with the head where it was.
C14_CommitAndRefTogether ==
    [][ApplyCall =>
          \/ /\ objects' = objects
             /\ branches' = branches
          \/ /\ Len(objects') = Len(objects) + 1
             /\ branches'[current] = Len(objects')]_vars

\* C12: an import called without force on a patch-queue branch ends at once
\* with an error; no branch is created, deleted or checked out and the
\* branches, the commits and the working tree are as before.
C12_RefusedOnQueueBranch ==
    [][(ImportStart /\ pq_re_match(pqfmt, current) /\ ~force) =>
          /\ pc' = "idle"
          /\ err' = GbpError("already on a patch-queue branch")
          /\ retval' = 1
          /\ current' = current
          /\ branches' = branches
          /\ objects' = objects
          /\ wt' = wt
          /\ dirty' = dirty
          /\ attempts' = <<>>
          /\ dels' = dels]_vars

C12_Witness ==
    /\ ImportEnded
    /\ ~force
    /\ err = GbpError("already on a patch-queue branch")
    /\ retval = 1
    /\ pq_re_match(pqfmt, current)
    /\ HasBranch(Master)
    /\ attempts = <<>>
    /\ dels = <<>>

\* a forced import has deleted the patch-queue branch before its first
\* attempt, and the branch it ends with starts from its last attempt, one of
\* its candidate baselines
ForcedImportMadeItsBranch ==
    force =>
        /\ (pc \in {"imp_commits", "imp_loop"} /\ attempts = <<>>) => ~HasBranch(pq_branch)
        /\ (ImportEnded /\ err = NoError) =>
              /\ HasBranch(pq_branch)
              /\ attempts # <<>>
              /\ Baseline(branches[pq_branch]) = attempts[Len(attempts)]
              /\ IF frontend = "deb"
                 THEN \E i \in 1..TriesGiven :
                          /\ i <= Len(Candidates(branches[branch], TriesGiven))
                          /\ Candidates(branches[branch], TriesGiven)[i] = attempts[Len(attempts)]
                 ELSE attempts = <<upstream>>

\* C13: an import that finds its patch-queue branch and has no force ends
\* with an error and leaves every branch and commit as it was; one that has
\* force has deleted that branch before its first attempt, and the branch a
\* successful one ends with was made by it at one of its candidates.
C13_ExistingQueueBranch ==
    /\ [][(ImportStart /\ ~force /\ HasBranch(ImportTarget)) =>
             /\ pc' = "idle"
             /\ err'.type = "GbpError"
             /\ retval' = 1
             /\ branches' = branches
             /\ objects' = objects]_vars
    /\ []ForcedImportMadeItsBranch

C13_Witness ==
    /\ ImportEnded
    /\ err = NoError
    /\ force
    /\ dels # <<>>
    /\ dels[1].name = pq_branch
    /\ Len(attempts) = 2
    /\ HasBranch(pq_branch)

C13_WitnessRefused ==
    /\ ImportEnded
    /\ ~force
    /\ err = GbpError("patch queue branch already exists")
    /\ HasBranch(Subst(pqfmt, current))

\* C25: once a patch of the series failed to apply, no later patch is tried
\* on that baseline, and when import turns to the next baseline the working
\* tree is clean, the branch import was called on is checked out and the
\* patch-queue branch is gone, deleted after that branch was checked out
C25_AttemptStartsClean ==
    (action = "import" /\ pc = "imp_loop" /\ ci > 1) =>
        /\ ~dirty
        /\ current = orig
        /\ ~HasBranch(pq_branch)
        /\ dels # <<>>
        /\ dels[Len(dels)] = [name |-> pq_branch, cur |-> orig]
        /\ pi = FailAt(commits[ci - 1])

\* C27: when import ended without an error, the patch-queue branch is the
\* branch checked out, in both front ends
C27_ImportEndsOnQueue ==
    (ImportEnded /\ err = NoError) => (HasBranch(pq_branch) /\ current = pq_branch)

\* ------------------------------------- claims about drop, switch and apply
\* a step that is a whole call of main with the action a
MainStep(a) ==
    /\ pc = "idle"
    /\ action' = a
    /\ ops' = ops - 1

OnQueueBranch == pq_re_match(pqfmt, current)

\* the patch-queue branch of the current branch, the current branch itself
\* when it is one
QueueBranch == IF OnQueueBranch THEN current ELSE Subst(pqfmt, current)

\* C15: drop on a patch-queue branch fails and deletes nothing; on any other
\* branch it deletes that branch's patch-queue branch if there is one and
\* nothing else, and the checked-out branch stays as it is.
C15_DropDeletesOnlyTheQueue ==
    [][MainStep("drop") =>
          /\ current' = current
          /\ objects' = objects
          /\ IF OnQueueBranch
             THEN /\ err'.type = "GbpError"
                  /\ retval' = 1
                  /\ branches' = branches
             ELSE /\ err' = NoError
                  /\ retval' = 0
                  /\ DOMAIN branches' = (DOMAIN branches) \ {QueueBranch}
                  /\ \A n \in DOMAIN branches' : branches'[n] = branches[n]]_vars

C15_Witness ==
    /\ pc = "idle"
    /\ action = "drop"
    /\ err = NoError
    /\ dels # <<>>
    /\ ~HasBranch(dels[Len(dels)].name)
    /\ dels[Len(dels)].cur = current
    /\ current = Stray
    /\ HasBranch(Master)

C15_WitnessRefused ==
    /\ pc = "idle"
    /\ action = "drop"
    /\ err = GbpError("on a patch-queue branch")
    /\ OnQueueBranch
    /\ dels = <<>>

\* C16: switch on a patch-queue branch checks out its base; on any other
\* branch it checks out that branch's patch-queue branch, made at the current
\* head if there was none; every branch that existed stays where it was, and
\* a switch that raises changes nothing.
C16_SwitchKeepsTheQueue ==
    [][MainStep("switch") =>
          /\ objects' = objects
          /\ \A n \in DOMAIN branches : n \in DOMAIN branches' /\ branches'[n] = branches[n]
          /\ IF err' = NoError
             THEN IF OnQueueBranch
                  THEN /\ current' = pq_branch_base(current, pqfmt)
                       /\ branches' = branches
                  ELSE /\ current' = QueueBranch
                       /\ DOMAIN branches' = (DOMAIN branches) \cup {QueueBranch}
                       /\ QueueBranch \notin DOMAIN branches =>
                             branches'[QueueBranch] = branches[current]
             ELSE /\ current' = current
                  /\ branches' = branches
                  /\ OnQueueBranch => pq_branch_base(current, pqfmt) \notin DOMAIN branches
                  /\ ~OnQueueBranch => QueueBranch \notin DOMAIN branches]_vars

C16_Witness ==
    /\ pc = "idle"
    /\ action = "switch"
    /\ err = NoError
    /\ orig = Master
    /\ current = Subst(pqfmt, Master)
    /\ branches[current] # branches[Master]
    /\ Len(runs) = 1

C16_WitnessBack ==
    /\ pc = "idle"
    /\ action = "switch"
    /\ err = NoError
    /\ pq_re_match(pqfmt, orig)
    /\ current = Master

\* C17: an apply that succeeds leaves the patch-queue branch checked out,
\* made at the current head if there was none, with one new commit on it
\* whose only parent is the head the branch had; every other branch, every
\* other commit and the patch files of the working tree are as before.
C17_ApplyAddsOneCommit ==
    [][(MainStep("apply") /\ err' = NoError) =>
          LET prev == IF HasBranch(QueueBranch) THEN branches[QueueBranch]
                      ELSE branches[current]
          IN  /\ current' = QueueBranch
              /\ Len(objects') = Len(objects) + 1
              /\ SubSeq(objects', 1, Len(objects)) = objects
              /\ objects'[Len(objects')].par = <<prev>>
              /\ DOMAIN branches' = (DOMAIN branches) \cup {QueueBranch}
              /\ branches'[QueueBranch] = Len(objects')
              /\ \A n \in (DOMAIN branches) \ {QueueBranch} : branches'[n] = branches[n]
              /\ wt' = wt]_vars

C17_Witness ==
    /\ pc = "idle"
    /\ action = "apply"
    /\ err = NoError
    /\ Len(runs) = 1
    /\ orig = Master
    /\ current = Subst(pqfmt, Master)
    /\ objects[branches[current]].patch = 1
    /\ objects[branches[current]].par = <<branches[Master]>>
    /\ nq > 0
    /\ wt = SeriesFiles

\* C21: after a call of main that ended with an error the branch checked out
\* is the branch that was checked out when the call began
C21_ErrorRestoresBranch ==
    (pc = "idle" /\ Len(runs) > 0 /\ err # NoError) => current = orig

\* a call of main that ends with a usage error
UsageStep == pc = "idle" /\ action' = "usage" /\ ops' = ops - 1

\* C22: main called with no action, with an unknown action or with apply
\* without exactly one patch file returns a status other than 0, and no
\* branch is created, deleted or checked out and no file is written
C22_UsageErrorChangesNothing ==
    [][UsageStep =>
          /\ retval' # 0
          /\ branches' = branches
          /\ current' = current
          /\ objects' = objects
          /\ wt' = wt
          /\ manual' = manual
          /\ dirty' = dirty
          /\ staging' = staging
          /\ runtmp' = runtmp]_vars

\* main was called with apply and two patch files, on a repository an action
\* changed before
C22_Witness ==
    /\ Len(runs) = 2
    /\ runs[1].action = "switch"
    /\ runs[1].err = NoError
    /\ runs[2].action = "usage"
    /\ runs[2].out.input = <<"pq", "apply", "p", "p">>
    /\ retval = 1

\* the three usage errors of the claim
C22_WitnessKinds ==
    /\ Len(runs) = 2
    /\ runs[1].action = "usage"
    /\ runs[2].action = "usage"
    /\ Len(runs[1].out.input) = 1
    /\ runs[2].out.input = <<"pq", "bogus">>

\* C23: the status main returns for a usage error differs from the status it
\* returns for an action that failed
C23_StatusTellsTheKind ==
    \A i, j \in 1..Len(runs) :
        (runs[i].action = "usage" /\ runs[j].action # "usage" /\ runs[j].err # NoError)
            => UsageStatus(Usage(runs[i].out.input)) # MainRetval(frontend, runs[j].err)

\* C24: when the backend reported a failure to the action, main returns a
\* status other than 0, in both front ends
C24_BackendFailureIsReported ==
    (pc = "idle" /\ Len(runs) > 0 /\ err.type = "GitRepositoryError") => retval # 0

SecondSwitch ==
    /\ pc = "idle"
    /\ action = "switch"
    /\ err = NoError
    /\ ~pq_re_match(pqfmt, orig)
    /\ MainStep("switch")
    /\ err' = NoError

C30_WitnessPackaging ==
    /\ Len(runs) = 2
    /\ runs[1].action = "switch" /\ runs[1].err = NoError
    /\ runs[2].action = "switch" /\ runs[2].err = NoError
    /\ pqfmt = FmtInvariable
    /\ orig = FmtInvariable
    /\ Stray \in DOMAIN branches
    /\ current = packaging_branch

\* ------------------------------------------------------- claims about export
Digits == {"0", "1", "2", "3", "4", "5", "6", "7", "8", "9"}

HasNumber(name) ==
    /\ Len(name) >= 5
    /\ name[5] = "-"
    /\ \A i \in 1..4 : name[i] \in Digits

StripNumber(name) == IF HasNumber(name) THEN SubSeq(name, 6, Len(name)) ELSE name

\* the k-th and the next call of main were an import and an export that
\* both succeeded
ImportThenExport(k) ==
    /\ runs[k].action = "import"
    /\ runs[k].err = NoError
    /\ runs[k + 1].action = "export"
    /\ runs[k + 1].err = NoError

\* export leaves out the patch in file f
Ignored(f) == PatchIgnore(f) # "no" /\ (frontend = "deb" \/ ignore_regex)

NotIgnored(f) == ~Ignored(f)

\* the name export gives the j-th patch it writes, made from file f
ExportedName(j, f) ==
    (IF patch_numbers THEN NumPrefix(j) ELSE <<>>) \o PatchSubject(f) \o Suffix

\* C6 as stated: an export right after the import of a series S writes one
\* entry per patch of S, in the order of S, each under the file name it has
\* in S but for the number prefix.
C6_RoundTripKeepsNames ==
    \A k \in 1..(Len(runs) - 1) :
        ImportThenExport(k) =>
            LET S == runs[k].out.input
                E == runs[k + 1].out.series
            IN  /\ Len(E) = Len(S)
                /\ \A i \in 1..Len(S) : StripNumber(E[i]) = StripNumber(S[i].name)

\* C6 as amended: an export right after the import of a series S writes one
\* entry per patch of S that carries no ignore command, in the order of S,
\* each named after the subject of its patch, with the number prefix counting
\* the entries written.
C6_RoundTripKeepsSubjects ==
    \A k \in 1..(Len(runs) - 1) :
        ImportThenExport(k) =>
            LET S == SelectSeq(runs[k].out.input, NotIgnored)
                E == runs[k + 1].out.series
            IN  /\ Len(E) = Len(S)
                /\ \A i \in 1..Len(S) : E[i] = ExportedName(i, S[i])

C6_Witness ==
    /\ Len(runs) >= 2
    /\ ImportThenExport(Len(runs) - 1)
    /\ Len(runs[Len(runs) - 1].out.input) = 2
    /\ Len(runs[Len(runs)].out.series) = 2
    /\ PatchSubject(runs[Len(runs) - 1].out.input[1]) # PatchSubject(runs[Len(runs) - 1].out.input[2])
    /\ Len(attempts) = 2

\* two exports in a row, the first a success, that found the patch-queue
\* branch at the same commit
ExportTwice(k) ==
    /\ runs[k].action = "export"
    /\ runs[k].err = NoError
    /\ runs[k + 1].action = "export"
    /\ runs[k + 1].out.pqtip = runs[k].out.pqtip

\* C7: of two exports in a row that find the patch-queue branch unchanged, the
\* second succeeds and writes the series the first wrote, finds nothing added
\* and nothing removed, and makes no commit on the base branch.
C7_ExportTwiceSameSeries ==
    \A k \in 1..(Len(runs) - 1) :
        ExportTwice(k) =>
            /\ runs[k + 1].err = NoError
            /\ runs[k + 1].out.series = runs[k].out.series
            /\ runs[k + 1].out.added = {}
            /\ runs[k + 1].out.removed = {}
            /\ ~runs[k + 1].out.committed

C7_Witness ==
    /\ Len(runs) >= 2
    /\ ExportTwice(Len(runs) - 1)
    /\ frontend = "deb"
    /\ runs[Len(runs) - 1].out.committed
    /\ runs[Len(runs) - 1].out.added # {}
    /\ Len(runs[Len(runs)].out.series) = 2

\* a step that is a whole export
ExportStep ==
    /\ pc = "idle"
    /\ Len(runs') = Len(runs) + 1
    /\ runs'[Len(runs')].action = "export"

\* deb: the patch-queue branch of the base export works on exists and has no
\* commit the base branch does not have
NothingToExport ==
    /\ frontend = "deb"
    /\ HasBranch(ExportBase)
    /\ PqTip(ExportBase) # 0
    /\ PqTip(ExportBase) \in Reach(branches[ExportBase])

\* C8: an export that finds no commit on the patch-queue branch over the
\* base branch raises nothing, leaves no patch and no series in the working
\* tree, and commits nothing.
C8_NothingToExport ==
    [][(ExportStep /\ NothingToExport) =>
          /\ err' = NoError
          /\ retval' = 0
          /\ wt' = <<>>
          /\ runs'[Len(runs')].out.series = <<>>
          /\ ~runs'[Len(runs')].out.committed
          /\ objects' = objects
          /\ branches'[ExportBase] = branches[ExportBase]]_vars

C8_Witness ==
    /\ Len(runs) >= 1
    /\ frontend = "deb"
    /\ opt_commit
    /\ nq > 0
    /\ runs[Len(runs)].action = "export"
    /\ runs[Len(runs)].err = NoError
    /\ runs[Len(runs)].out.pqtip # 0
    /\ runs[Len(runs)].out.revs = <<>>
    /\ wt = <<>>

\* C18: an export leaves every hand-maintained file of the patch directory
\* in place and unchanged.
C18_ManualFilesKept ==
    [][ExportStep => manual' = manual]_vars

\* rpm: the commits of revs that match no configured ignore pattern
Exported(revs) == SelectSeq(revs, LAMBDA c : ~ignore_regex \/ objects[c].ign = "no")

\* C9: the series an rpm export writes has no entry for a commit that matches the
\* ignore pattern, in its subject or in its body, and the entries of the other
\* commits are numbered as if the range held only them: the j-th of them gets
\* the number j.
C9_IgnoredTakesNoNumber ==
    \A k \in 1..Len(runs) :
        (frontend = "rpm" /\ runs[k].action = "export" /\ runs[k].err = NoError) =>
            LET kept == Exported(runs[k].out.revs)
                E == runs[k].out.series
            IN  /\ Len(E) = Len(kept)
                /\ \A j \in 1..Len(kept) :
                      E[j] = (IF patch_numbers THEN NumPrefix(j) ELSE <<>>)
                                 \o objects[kept[j]].subj \o Suffix

C9_Witness ==
    /\ Len(runs) >= 1
    /\ frontend = "rpm"
    /\ ignore_regex
    /\ patch_numbers
    /\ runs[Len(runs)].action = "export"
    /\ runs[Len(runs)].err = NoError
    /\ Len(runs[Len(runs)].out.revs) = 2
    /\ objects[runs[Len(runs)].out.revs[1]].ign \in {"subject", "body"}
    /\ runs[Len(runs)].out.series = <<NumPrefix(1) \o objects[runs[Len(runs)].out.revs[2]].subj \o Suffix>>

\* C19: the patch file names one rpm export returns are pairwise different,
\* whatever the subjects of the commits and with numbering on or off
C19_NoDuplicateNames ==
    \A k \in 1..Len(runs) :
        (frontend = "rpm" /\ runs[k].action = "export" /\ runs[k].err = NoError)
            => \A i, j \in 1..Len(runs[k].out.series) :
                   i # j => runs[k].out.series[i] # runs[k].out.series[j]

\* the run k is an export that committed the patches it wrote
CommittedExport(k) == runs[k].action = "export" /\ runs[k].out.committed

\* the subjects of the commits of run k whose patch file got the name n
SubjectsOfName(k, n) ==
    LET kept == SelectSeq(runs[k].out.revs, LAMBDA c : objects[c].ign = "no")
    IN  {objects[kept[i]].subj : i \in {j \in 1..Len(kept) : runs[k].out.series[j] = n}}

\* C20: an export that commits takes as added the names of the new series
\* that are not in the old one and as removed those of the old one that are
\* not in the new one, so the two are disjoint and empty for equal series;
\* its message is the subject of the added patch when one patch is added and
\* none removed, and otherwise 'Rediff patches' with a line for each added
\* and a line for each removed patch
C20_CommitMessage ==
    \A k \in 1..Len(runs) :
        CommittedExport(k) =>
            LET o == runs[k].out
                new == {o.series[i] : i \in 1..Len(o.series)}
                old == {o.old[i] : i \in 1..Len(o.old)}
            IN  /\ o.added = {n \in new : n \notin old}
                /\ o.removed = {n \in old : n \notin new}
                /\ o.added \cap o.removed = {}
                /\ o.old = o.series => (o.added = {} /\ o.removed = {})
                /\ IF Cardinality(o.added) = 1 /\ o.removed = {}
                   THEN /\ o.msg.kind = "subject"
                        /\ \E n \in o.added : o.msg.subject \in SubjectsOfName(k, n)
                   ELSE /\ o.msg.kind = "rediff"
                        /\ o.msg.added = o.added
                        /\ o.msg.dropped = o.removed

\* an export whose one new patch comes from a commit made on the queue
C20_Witness ==
    /\ Len(runs) >= 1
    /\ CommittedExport(Len(runs))
    /\ runs[Len(runs)].out.old # <<>>
    /\ Cardinality(runs[Len(runs)].out.added) = 1
    /\ runs[Len(runs)].out.removed = {}
    /\ runs[Len(runs)].out.msg = [NoMsg EXCEPT !.kind = "subject", !.subject = <<"a">>]

\* an export that adds a patch and drops another
C20_WitnessRediff ==
    /\ Len(runs) >= 1
    /\ CommittedExport(Len(runs))
    /\ runs[Len(runs)].out.added # {}
    /\ runs[Len(runs)].out.removed # {}
    /\ runs[Len(runs)].out.msg.kind = "rediff"
    /\ runs[Len(runs)].out.msg.added = runs[Len(runs)].out.added

\* an export that commits the series it found
C20_WitnessEqual ==
    /\ Len(runs) >= 1
    /\ CommittedExport(Len(runs))
    /\ runs[Len(runs)].out.series # <<>>
    /\ runs[Len(runs)].out.old = runs[Len(runs)].out.series
    /\ runs[Len(runs)].out.msg = [NoMsg EXCEPT !.kind = "rediff"]

\* the run k is an rpm export with a squash point other than the baseline
SquashedExport(k) == frontend = "rpm" /\ runs[k].action = "export" /\ Squashing

\* the commits of the range of run k: those the head of the patch-queue
\* branch has and upstream does not
SquashRange(k) ==
    IF runs[k].out.pqtip = 0 \/ upstream = 0 THEN {}
    ELSE Reach(runs[k].out.pqtip) \ Reach(upstream)

\* the commits of run k that come after the squash point, oldest first, less
\* the ignored ones
AfterSquashPoint(k) ==
    Exported(SelectSeq(runs[k].out.revs,
                       LAMBDA c : c # squash.point /\ squash.point \in Reach(c)))

\* the entries of the series of run k from the i-th on are the patches of the
\* commits after the squash point, numbered from 1
PatchesFollow(k, i) ==
    LET kept == AfterSquashPoint(k)
        E == runs[k].out.series
    IN  /\ Len(E) = i - 1 + Len(kept)
        /\ \A j \in 1..Len(kept) :
              E[i - 1 + j] = (IF patch_numbers THEN NumPrefix(j) ELSE <<>>)
                                 \o objects[kept[j]].subj \o Suffix

\* C26 as stated: with a squash point other than the baseline, export fails
\* when the squash point is not a commit of the range; otherwise the series
\* begins with the one diff of the commits up to the squash point and goes on
\* with one patch for each commit after it that is not ignored, oldest first,
\* and with no patch for a commit up to the squash point
C26_SquashDiffFirst ==
    \A k \in 1..Len(runs) :
        (SquashedExport(k) /\ runs[k].out.pqtip # 0 /\ upstream \in Reach(runs[k].out.pqtip)) =>
            IF squash.point \notin SquashRange(k)
            THEN runs[k].err = GbpError("squash point not found")
            ELSE /\ runs[k].err = NoError
                 /\ runs[k].out.series # <<>>
                 /\ runs[k].out.series[1] = DiffName
                 /\ PatchesFollow(k, 2)

\* C26 as amended: the diff of the commits up to the squash point begins the
\* series when it is not empty; no file stands for these commits when it is
C26_SquashDiffFirstUnlessEmpty ==
    \A k \in 1..Len(runs) :
        (SquashedExport(k) /\ runs[k].out.pqtip # 0 /\ upstream \in Reach(runs[k].out.pqtip)) =>
            IF squash.point \notin SquashRange(k)
            THEN runs[k].err = GbpError("squash point not found")
            ELSE /\ runs[k].err = NoError
                 /\ IF squash.diff
                    THEN /\ runs[k].out.series # <<>>
                         /\ runs[k].out.series[1] = DiffName
                         /\ PatchesFollow(k, 2)
                    ELSE PatchesFollow(k, 1)

\* an export of three commits squashed up to the second
C26_Witness ==
    /\ Len(runs) = 1
    /\ SquashedExport(1)
    /\ runs[1].err = NoError
    /\ squash.diff
    /\ patch_numbers
    /\ Len(runs[1].out.revs) = 3
    /\ squash.point = runs[1].out.revs[2]
    /\ runs[1].out.series = <<DiffName, NumPrefix(1) \o <<"a">> \o Suffix>>

\* an export that fails for a squash point outside the range
C26_WitnessOutside ==
    /\ Len(runs) = 1
    /\ SquashedExport(1)
    /\ runs[1].err = GbpError("squash point not found")
    /\ runs[1].out.pqtip # 0

\* the errors of an export the claim C28 names
ExportFailures ==
    {GbpError("not a valid tree-ish"), GbpError("start commit not an ancestor"),
     GbpError("squash point not found")}

\* C28: an export that fails because the patch-queue branch is missing, the
\* start commit is no ancestor of the end commit or the squash point is not
\* in the range leaves the patch files and the series of the working tree as
\* they were
C28_FailedExportKeepsFiles ==
    [][(ExportStep /\ runs'[Len(runs')].err \in ExportFailures) => wt' = wt]_vars

\* ------------------------------------------------------------- naming checks
\* the functions of common/pq.py applied to a pattern and a branch name
engineIdle == UNCHANGED engineVars

EngineIdleInit ==
    /\ frontend = "deb"
    /\ pqfmt = FmtWithBranch
    /\ force = FALSE
    /\ time_machine = 0
    /\ nq = 0
    /\ failAt = <<>>
    /\ upstream = 0
    /\ objects = <<>>
    /\ branches = <<>>
    /\ current = <<>>
    /\ PlainSeries
    /\ ControlInit
    /\ ops = 0

Patterns == {p \in SeqsUpTo(PatTokens, MaxPatLen) : ReCompiles(p)}

BranchNames == SeqsUpTo(NameChars, MaxNameLen) \ {<<>>}

NamingInit ==
    /\ n_pat \in Patterns
    /\ n_branch \in BranchNames
    /\ n_name = <<>>
    /\ n_ispq = FALSE
    /\ n_base = <<>>
    /\ n_pc = "start"
    /\ EngineIdleInit

NameBranch ==
    /\ n_pc = "start"
    /\ n_name' = pq_branch_name(n_branch, n_pat)
    /\ n_pc' = "named"
    /\ UNCHANGED <<n_pat, n_branch, n_ispq, n_base>>
    /\ engineIdle

ClassifyName ==
    /\ n_pc = "named"
    /\ n_name # NoneVal
    /\ n_ispq' = is_pq_branch(n_name, n_pat)
    /\ n_pc' = "classified"
    /\ UNCHANGED <<n_pat, n_branch, n_name, n_base>>
    /\ engineIdle

BaseOfName ==
    /\ n_pc = "classified"
    /\ n_base' = pq_branch_base(n_name, n_pat)
    /\ n_pc' = "based"
    /\ UNCHANGED <<n_pat, n_branch, n_name, n_ispq>>
    /\ engineIdle

\* pq_branch_base on the name as given, derived or not
BaseOfBranch ==
    /\ n_pc = "start"
    /\ n_base' = pq_branch_base(n_branch, n_pat)
    /\ n_pc' = "plain"
    /\ UNCHANGED <<n_pat, n_branch, n_name, n_ispq>>
    /\ engineIdle

NamingNext ==
    \/ NameBranch
    \/ ClassifyName
    \/ BaseOfName
    \/ BaseOfBranch

SpecNaming == NamingInit /\ [][NamingNext]_vars

Classified == n_pc \in {"classified", "based"}

\* no regular-expression metacharacter in the pattern's literal text
Literal(p) == \A i \in 1..Len(p) : p[i] # "+"

\* C10 as stated: for every base branch name without whitespace that is not
\* a patch-queue branch and every pattern, the name derived for it is
\* classified as a patch-queue branch.
C10_DerivedNameIsQueue ==
    (Classified /\ ~HasSpace(n_branch)) => n_ispq

\* C10 as amended: the same for every pattern whose literal text holds no
\* regular-expression metacharacter, with or without the branch component.
C10_DerivedNameIsQueueLiteral ==
    (Classified /\ ~HasSpace(n_branch) /\ Literal(n_pat)) => n_ispq

C10_Witness ==
    /\ Classified
    /\ n_pat = <<"q", BR>>
    /\ n_branch = <<"+">>
    /\ n_name = <<"q", "+">>
    /\ n_ispq

\* C11 as stated: the base of the name derived for a branch is that branch
\* when the pattern has the branch component; when it has none, the base of
\* a name is the packaging branch if the name is the pattern's text and none
\* otherwise.
C11_BaseOfDerivedName ==
    /\ (n_pc = "based" /\ ~HasSpace(n_branch) /\ BRCount(n_pat) > 0) => n_base = n_branch
    /\ (n_pc = "plain" /\ BRCount(n_pat) = 0) =>
           n_base = IF n_branch = n_pat THEN packaging_branch ELSE NoneVal

\* C11 as amended: the same for every pattern whose literal text holds no
\* regular-expression metacharacter.
C11_BaseOfDerivedNameLiteral ==
    /\ (n_pc = "based" /\ ~HasSpace(n_branch) /\ BRCount(n_pat) > 0 /\ Literal(n_pat)) =>
           n_base = n_branch
    /\ (n_pc = "plain" /\ BRCount(n_pat) = 0 /\ Literal(n_pat)) =>
           n_base = IF n_branch = n_pat THEN packaging_branch ELSE NoneVal

C11_Witness ==
    /\ n_pc = "based"
    /\ n_pat = <<"q", BR>>
    /\ n_branch = <<"m", "+">>
    /\ n_base = <<"m", "+">>

C11_WitnessNoComponent ==
    /\ n_pc = "plain"
    /\ n_pat = <<"q", "m">>
    /\ n_branch = <<"q", "m">>
    /\ n_base = packaging_branch

====
